---- MODULE Spec2Model ----
(***************************************************************************)
(* Concurrency snippets of src/go_exp.go.  The file is a sequence of       *)
(* independent `package main` programs; `program` says which one runs.     *)
(*   "pool"  : worker pool with WaitGroup and done channel (lines 71-103)  *)
(*   "naive" : first result, closing the result channel    (lines 120-133) *)
(*   "race"  : first result with a done channel            (lines 146-163) *)
(*   "closure": goroutines that capture the loop variable  (lines 306-317) *)
(*   "fixed" : goroutines that get the value as argument   (lines 328-339) *)
(*   "query" : func Query, replicated database query       (lines 436-447) *)
(* Channels are unbuffered: a send and a receive complete together, in one *)
(* step, when both goroutines are at the channel operation.                *)
(***************************************************************************)
EXTENDS Integers, Sequences, FiniteSets

VARIABLES program, mainPc, i, gPc, took, val, closed, sentOn, wg, out, result,
          conns, panicked, v, in

vars == <<program, mainPc, i, gPc, took, val, closed, sentOn, wg, out, result,
          conns, panicked, v, in>>

\* workerCount := 2
workerCount == 2

\* number of attempt goroutines of the done-channel race: for i := 0; i < 3; i++
NumAttempts == 3

\* number of sender goroutines of the naive first-result program:
\* for i := 0; i < 3; i++
NumSenders == 3

\* largest conns slice passed to Query
MaxConns == 3

\* DoQuery answers are drawn from 1..MaxResult
MaxResult == 2

Programs == {"pool", "naive", "race", "closure", "fixed", "query"}

\* data := []string{"one","two","three"}
data == <<"one", "two", "three">>

\* a string variable is two words, a pointer to its bytes and a length;
\* ptr names the literal pointed to
NoString == [ptr |-> "", len |-> 0]

\* len(s) of the literals
StrLen(s) == CASE s = "" -> 0 [] s = "one" -> 3 [] s = "two" -> 3 [] s = "three" -> 5

\* what fmt.Println shows of a string variable: the literal, or, when the
\* two words do not belong together, some other bytes
Text(s) == IF s.len = StrLen(s.ptr) THEN s.ptr ELSE "torn"

Results == 1 .. MaxResult

\* conns []Conn: connection k of the slice is the connection number k
ConnSlices == { [k \in 1 .. n |-> k] : n \in 0 .. MaxConns }

G == DOMAIN gPc

\* program p is the one that runs and it has not panicked (a panic ends it)
Runs(p) == program = p /\ ~panicked

\* fmt.Println / fmt.Printf: one line appended to standard output
Println(kind, args) == out' = Append(out, [kind |-> kind, args |-> args])

\* the goroutines the program has: workers, attempts, one attempt per conn
Goroutines(p, cs) ==
    CASE p = "pool"  -> 0 .. workerCount - 1
      [] p = "naive" -> 0 .. NumSenders - 1
      [] p = "race"  -> 0 .. NumAttempts - 1
      [] p \in {"closure", "fixed"} -> 0 .. Len(data) - 1
      [] p = "query" -> 0 .. Len(cs) - 1

Init ==
    /\ program \in Programs
    /\ conns \in ConnSlices
    /\ (program # "query") => conns = << >>
    /\ mainPc = "spawn"
    /\ i = 0
    /\ gPc = [g \in Goroutines(program, conns) |-> "none"]
    /\ took = [g \in Goroutines(program, conns) |-> "none"]
    /\ val = [g \in Goroutines(program, conns) |-> 0]
    /\ closed = {}
    /\ sentOn = {}
    /\ wg = 0
    /\ out = << >>
    /\ result = 0
    /\ panicked = FALSE
    /\ v = NoString
    /\ in = [g \in Goroutines(program, conns) |-> NoString]

----------------------------------------------------------------------------
(* Worker pool: main, lines 71-89 *)

\* for i := 0; i < workerCount; i++ { wg.Add(1); go doit(i,wq,done,&wg) }
PoolSpawn ==
    /\ Runs("pool") /\ mainPc = "spawn" /\ i < workerCount
    /\ wg' = wg + 1
    /\ gPc' = [gPc EXCEPT ![i] = "start"]
    /\ i' = i + 1
    /\ UNCHANGED <<program, v, in, sentOn, mainPc, took, val, closed, out, result, conns, panicked>>

\* PoolSpawned with close(done) moved in front of the send loop
PoolSpawnedCloseFirst ==
    /\ Runs("pool") /\ mainPc = "spawn" /\ i >= workerCount
    /\ mainPc' = "send"
    /\ i' = 0
    /\ closed' = closed \cup {"done"}
    /\ UNCHANGED <<program, v, in, sentOn, gPc, took, val, wg, out, result, conns, panicked>>

\* the spawn loop ends, the send loop starts with i := 0
PoolSpawned ==
    /\ Runs("pool") /\ mainPc = "spawn" /\ i >= workerCount
    /\ mainPc' = "send"
    /\ i' = 0
    /\ UNCHANGED <<program, v, in, sentOn, gPc, took, val, closed, wg, out, result, conns, panicked>>

\* WorkerRecv with a send loop that offers the same item again
WorkerRecvSameItem(w) ==
    /\ Runs("pool") /\ mainPc = "send" /\ i < workerCount
    /\ gPc[w] = "select"
    /\ sentOn' = sentOn \cup {"wq"}
    /\ gPc' = [gPc EXCEPT ![w] = "work"]
    /\ val' = [val EXCEPT ![w] = 0]
    /\ i' = i + 1
    /\ UNCHANGED <<program, v, in, mainPc, took, closed, wg, out, result, conns, panicked>>

\* WorkerRecv with item i handed to worker i only
WorkerRecvOwnItem(w) ==
    /\ Runs("pool") /\ mainPc = "send" /\ i < workerCount
    /\ gPc[w] = "select" /\ w = i
    /\ sentOn' = sentOn \cup {"wq"}
    /\ gPc' = [gPc EXCEPT ![w] = "work"]
    /\ val' = [val EXCEPT ![w] = i]
    /\ i' = i + 1
    /\ UNCHANGED <<program, v, in, mainPc, took, closed, wg, out, result, conns, panicked>>

\* wq <- i meets  case m := <- wq  of worker w
WorkerRecv(w) ==
    /\ Runs("pool") /\ mainPc = "send" /\ i < workerCount
    /\ gPc[w] = "select"
    /\ sentOn' = sentOn \cup {"wq"}
    /\ IF "wq" \in closed
       THEN /\ panicked' = TRUE
            /\ UNCHANGED <<gPc, val, i>>
       ELSE /\ gPc' = [gPc EXCEPT ![w] = "work"]
            /\ val' = [val EXCEPT ![w] = i]
            /\ i' = i + 1
            /\ UNCHANGED panicked
    /\ UNCHANGED <<program, v, in, mainPc, took, closed, wg, out, result, conns>>

\* for i := 0; i < workerCount; i++ { wq <- i }
PoolSend == \E w \in G : WorkerRecv(w)

\* the send loop ends
PoolSent ==
    /\ Runs("pool") /\ mainPc = "send" /\ i >= workerCount
    /\ mainPc' = "close"
    /\ UNCHANGED <<program, v, in, sentOn, i, gPc, took, val, closed, wg, out, result, conns, panicked>>

\* CloseChan that ignores a second close, as a sync.Once would
CloseChanOnce(cl, c) == [closed |-> cl \cup {c}, panicked |-> FALSE]

\* close(c) with cl the closed channels: closing a closed channel panics
CloseChan(cl, c) ==
    IF c \in cl THEN [closed |-> cl, panicked |-> TRUE]
                ELSE [closed |-> cl \cup {c}, panicked |-> FALSE]

\* PoolClose with the close(done) forgotten
PoolCloseForgotten ==
    /\ Runs("pool") /\ mainPc = "close"
    /\ mainPc' = "wait"
    /\ UNCHANGED <<program, v, in, sentOn, i, gPc, took, val, closed, wg, out, result, conns, panicked>>

\* close(done)
PoolClose ==
    /\ Runs("pool") /\ mainPc = "close"
    /\ closed' = CloseChan(closed, "done").closed
    /\ panicked' = CloseChan(closed, "done").panicked
    /\ mainPc' = IF panicked' THEN mainPc ELSE "wait"
    /\ UNCHANGED <<program, v, in, sentOn, i, gPc, took, val, wg, out, result, conns>>

\* PoolWait that does not look at the counter
PoolWaitNoCount ==
    /\ Runs("pool") /\ mainPc = "wait"
    /\ mainPc' = "print"
    /\ UNCHANGED <<program, v, in, sentOn, i, gPc, took, val, closed, wg, out, result, conns, panicked>>

\* wg.Wait()
PoolWait ==
    /\ Runs("pool") /\ mainPc = "wait"
    /\ wg = 0
    /\ mainPc' = "print"
    /\ UNCHANGED <<program, v, in, sentOn, i, gPc, took, val, closed, wg, out, result, conns, panicked>>

\* fmt.Println("all done!")
PoolPrint ==
    /\ Runs("pool") /\ mainPc = "print"
    /\ Println("all done!", << >>)
    /\ mainPc' = "done"
    /\ UNCHANGED <<program, v, in, sentOn, i, gPc, took, val, closed, wg, result, conns, panicked>>

(* Worker pool: doit, lines 91-103 *)

\* fmt.Printf("[%v] is running\n",workerId)
WorkerStart(w) ==
    /\ Runs("pool") /\ gPc[w] = "start"
    /\ Println("is running", <<w>>)
    /\ gPc' = [gPc EXCEPT ![w] = "select"]
    /\ UNCHANGED <<program, v, in, sentOn, mainPc, i, took, val, closed, wg, result, conns, panicked>>

\* fmt.Printf("[%v] m => %v\n",workerId,m)
WorkerWork(w) ==
    /\ Runs("pool") /\ gPc[w] = "work"
    /\ Println("m =>", <<w, val[w]>>)
    /\ gPc' = [gPc EXCEPT ![w] = "select"]
    /\ UNCHANGED <<program, v, in, sentOn, mainPc, i, took, val, closed, wg, result, conns, panicked>>

\* WorkerDone with a break in place of the return: it leaves the select only
WorkerDoneBreak(w) ==
    /\ Runs("pool") /\ gPc[w] = "select"
    /\ "done" \in closed
    /\ Println("is done", <<w>>)
    /\ took' = [took EXCEPT ![w] = "done"]
    /\ gPc' = [gPc EXCEPT ![w] = "select"]
    /\ UNCHANGED <<program, v, in, sentOn, mainPc, i, val, closed, wg, result, conns, panicked>>

\* case <- done: fmt.Printf("[%v] is done\n",workerId)
WorkerDone(w) ==
    /\ Runs("pool") /\ gPc[w] = "select"
    /\ "done" \in closed
    /\ Println("is done", <<w>>)
    /\ took' = [took EXCEPT ![w] = "done"]
    /\ gPc' = [gPc EXCEPT ![w] = "return"]
    /\ UNCHANGED <<program, v, in, sentOn, mainPc, i, val, closed, wg, result, conns, panicked>>

\* return, running the deferred wg.Done()
WorkerReturn(w) ==
    /\ Runs("pool") /\ gPc[w] = "return"
    /\ wg' = wg - 1
    /\ gPc' = [gPc EXCEPT ![w] = "stopped"]
    /\ UNCHANGED <<program, v, in, sentOn, mainPc, i, took, val, closed, out, result, conns, panicked>>

----------------------------------------------------------------------------
(* First result with a done channel: main, lines 146-163 *)

\* AttemptValue without the + 1
AttemptValueOffByOne(idx) == idx * 2

\* the value an attempt offers: (idx + 1) * 2
AttemptValue(idx) == (idx + 1) * 2

\* for i := 0; i < 3; i++ { go func(idx int) {...}(i) }
RaceSpawn ==
    /\ Runs("race") /\ mainPc = "spawn" /\ i < NumAttempts
    /\ gPc' = [gPc EXCEPT ![i] = "start"]
    /\ i' = i + 1
    /\ UNCHANGED <<program, v, in, sentOn, mainPc, took, val, closed, wg, out, result, conns, panicked>>

\* the spawn loop ends, main blocks in <-ch
RaceSpawned ==
    /\ Runs("race") /\ mainPc = "spawn" /\ i >= NumAttempts
    /\ mainPc' = "recv"
    /\ UNCHANGED <<program, v, in, sentOn, i, gPc, took, val, closed, wg, out, result, conns, panicked>>

\* the goroutine enters its select and evaluates the operand of the send
AttemptStart(g) ==
    /\ Runs("race") /\ gPc[g] = "start"
    /\ val' = [val EXCEPT ![g] = AttemptValue(g)]
    /\ gPc' = [gPc EXCEPT ![g] = "select"]
    /\ UNCHANGED <<program, v, in, sentOn, mainPc, i, took, closed, wg, out, result, conns, panicked>>

\* RaceSend with the waiting attempts served in spawn order
RaceSendInSpawnOrder(g) ==
    /\ Runs("race") /\ gPc[g] = "select"
    /\ mainPc = "recv"
    /\ \A h \in G : h < g => gPc[h] # "select"
    /\ sentOn' = sentOn \cup {"ch"}
    /\ result' = val[g]
    /\ mainPc' = "print"
    /\ took' = [took EXCEPT ![g] = "send"]
    /\ gPc' = [gPc EXCEPT ![g] = "sent"]
    /\ UNCHANGED <<program, v, in, i, val, closed, wg, out, conns, panicked>>

\* case ch <- (idx + 1) * 2  meets main's <-ch; a send on a closed ch panics
RaceSend(g) ==
    /\ Runs("race") /\ gPc[g] = "select"
    /\ ("ch" \in closed \/ mainPc = "recv")
    /\ sentOn' = sentOn \cup {"ch"}
    /\ IF "ch" \in closed
       THEN /\ panicked' = TRUE
            /\ UNCHANGED <<mainPc, gPc, took, result>>
       ELSE /\ result' = val[g]
            /\ mainPc' = "print"
            /\ took' = [took EXCEPT ![g] = "send"]
            /\ gPc' = [gPc EXCEPT ![g] = "sent"]
            /\ UNCHANGED panicked
    /\ UNCHANGED <<program, v, in, i, val, closed, wg, out, conns>>

\* <-ch of main: the first result
RaceRecv == \E g \in G : RaceSend(g)

\* fmt.Println("result:",<-ch)
RacePrint ==
    /\ Runs("race") /\ mainPc = "print"
    /\ Println("result:", <<result>>)
    /\ mainPc' = "close"
    /\ UNCHANGED <<program, v, in, sentOn, i, gPc, took, val, closed, wg, result, conns, panicked>>

\* RaceClose closing the result channel, as line 130 does
RaceCloseCh ==
    /\ Runs("race") /\ mainPc = "close"
    /\ closed' = closed \cup {"ch"}
    /\ mainPc' = "sleep"
    /\ UNCHANGED <<program, v, in, sentOn, i, gPc, took, val, wg, out, result, conns, panicked>>

\* close(done)
RaceClose ==
    /\ Runs("race") /\ mainPc = "close"
    /\ closed' = CloseChan(closed, "done").closed
    /\ panicked' = CloseChan(closed, "done").panicked
    /\ mainPc' = IF panicked' THEN mainPc ELSE "sleep"
    /\ UNCHANGED <<program, v, in, sentOn, i, gPc, took, val, wg, out, result, conns>>

\* RaceDone of a select that has no done case, as line 124
RaceDoneMissing(g) ==
    /\ Runs("race") /\ gPc[g] = "select"
    /\ FALSE
    /\ UNCHANGED vars

\* RaceDone with a case that is always ready, as a default is
RaceDoneAlwaysReady(g) ==
    /\ Runs("race") /\ gPc[g] = "select"
    /\ took' = [took EXCEPT ![g] = "done"]
    /\ gPc' = [gPc EXCEPT ![g] = "exiting"]
    /\ UNCHANGED <<program, v, in, sentOn, mainPc, i, val, closed, wg, out, result, conns, panicked>>

\* case <- done: ready once done is closed
RaceDone(g) ==
    /\ Runs("race") /\ gPc[g] = "select"
    /\ "done" \in closed
    /\ took' = [took EXCEPT ![g] = "done"]
    /\ gPc' = [gPc EXCEPT ![g] = "exiting"]
    /\ UNCHANGED <<program, v, in, sentOn, mainPc, i, val, closed, wg, out, result, conns, panicked>>

\* fmt.Println(idx,"sent result") / fmt.Println(idx,"exiting"), then the
\* goroutine's function returns
AttemptPrint(g) ==
    /\ Runs("race") /\ gPc[g] \in {"sent", "exiting"}
    /\ Println(IF gPc[g] = "sent" THEN "sent result" ELSE "exiting", <<g>>)
    /\ gPc' = [gPc EXCEPT ![g] = "returned"]
    /\ UNCHANGED <<program, v, in, sentOn, mainPc, i, took, val, closed, wg, result, conns, panicked>>

\* a goroutine of the race that can take a step now
RaceRunnable(g) ==
    \/ gPc[g] \in {"start", "sent", "exiting"}
    \/ gPc[g] = "select" /\ ("done" \in closed \/ "ch" \in closed \/ mainPc = "recv")

\* time.Sleep(3 * time.Second), then main returns.  The three seconds pass
\* only after every goroutine that can run has run.
RaceSleep ==
    /\ Runs("race") /\ mainPc = "sleep"
    /\ \A g \in G : ~RaceRunnable(g)
    /\ mainPc' = "done"
    /\ UNCHANGED <<program, v, in, sentOn, i, gPc, took, val, closed, wg, out, result, conns, panicked>>

----------------------------------------------------------------------------
(* First result, closing the result channel: main, lines 120-133 *)

\* for i := 0; i < 3; i++ { go func(idx int) {...}(i) }
NaiveSpawn ==
    /\ Runs("naive") /\ mainPc = "spawn" /\ i < NumSenders
    /\ gPc' = [gPc EXCEPT ![i] = "start"]
    /\ i' = i + 1
    /\ UNCHANGED <<program, v, in, sentOn, mainPc, took, val, closed, wg, out, result, conns, panicked>>

\* the spawn loop ends, main blocks in <-ch
NaiveSpawned ==
    /\ Runs("naive") /\ mainPc = "spawn" /\ i >= NumSenders
    /\ mainPc' = "recv"
    /\ UNCHANGED <<program, v, in, sentOn, i, gPc, took, val, closed, wg, out, result, conns, panicked>>

\* the goroutine evaluates (idx + 1) * 2 and goes to its send
NaiveStart(g) ==
    /\ Runs("naive") /\ gPc[g] = "start"
    /\ val' = [val EXCEPT ![g] = (g + 1) * 2]
    /\ gPc' = [gPc EXCEPT ![g] = "send"]
    /\ UNCHANGED <<program, v, in, sentOn, mainPc, i, took, closed, wg, out, result, conns, panicked>>

\* NaiveSend if a send on a closed channel waited, as a receive on an open
\* one does, instead of panicking
NaiveSendBlocksOnClosed(g) ==
    /\ Runs("naive") /\ gPc[g] = "send"
    /\ "ch" \notin closed /\ mainPc = "recv"
    /\ sentOn' = sentOn \cup {"ch"}
    /\ result' = val[g]
    /\ mainPc' = "print"
    /\ took' = [took EXCEPT ![g] = "send"]
    /\ gPc' = [gPc EXCEPT ![g] = "returned"]
    /\ UNCHANGED <<program, v, in, i, val, closed, wg, out, conns, panicked>>

\* ch <- (idx + 1) * 2  meets main's <-ch and the goroutine returns; a send
\* on a closed ch panics
NaiveSend(g) ==
    /\ Runs("naive") /\ gPc[g] = "send"
    /\ ("ch" \in closed \/ mainPc = "recv")
    /\ sentOn' = sentOn \cup {"ch"}
    /\ IF "ch" \in closed
       THEN /\ panicked' = TRUE
            /\ UNCHANGED <<mainPc, gPc, took, result>>
       ELSE /\ result' = val[g]
            /\ mainPc' = "print"
            /\ took' = [took EXCEPT ![g] = "send"]
            /\ gPc' = [gPc EXCEPT ![g] = "returned"]
            /\ UNCHANGED panicked
    /\ UNCHANGED <<program, v, in, i, val, closed, wg, out, conns>>

\* <-ch of main: the first result
NaiveRecv == \E g \in G : NaiveSend(g)

\* fmt.Println(<-ch)
NaivePrint ==
    /\ Runs("naive") /\ mainPc = "print"
    /\ Println("", <<result>>)
    /\ mainPc' = "close"
    /\ UNCHANGED <<program, v, in, sentOn, i, gPc, took, val, closed, wg, result, conns, panicked>>

\* close(ch) //not ok (you still have other senders)
NaiveClose ==
    /\ Runs("naive") /\ mainPc = "close"
    /\ closed' = CloseChan(closed, "ch").closed
    /\ panicked' = CloseChan(closed, "ch").panicked
    /\ mainPc' = IF panicked' THEN mainPc ELSE "sleep"
    /\ UNCHANGED <<program, v, in, sentOn, i, gPc, took, val, wg, out, result, conns>>

\* a goroutine, of a program whose main ends in time.Sleep, that can take a
\* step now
Runnable(g) ==
    \/ gPc[g] = "start"
    \/ gPc[g] = "send" /\ ("ch" \in closed \/ mainPc = "recv")

\* the programs whose main ends in time.Sleep, besides the done-channel race
Sleepers == {"naive", "closure", "fixed"}

\* time.Sleep(n * time.Second), then main returns.  The seconds pass only
\* after every goroutine that can run has run.
MainSleep ==
    /\ program \in Sleepers /\ ~panicked /\ mainPc = "sleep"
    /\ \A g \in G : ~Runnable(g)
    /\ mainPc' = "done"
    /\ UNCHANGED <<program, v, in, sentOn, i, gPc, took, val, closed, wg, out, result, conns, panicked>>

----------------------------------------------------------------------------
(* Iteration variable and closures: main, lines 306-317 and 328-339 *)

\* for _,v := range data: v, one variable for the whole loop, is assigned
\* element i word by word, in either order
LoopAssign ==
    /\ program \in {"closure", "fixed"} /\ ~panicked
    /\ mainPc \in {"spawn", "ptr", "len"} /\ i < Len(data)
    /\ \E word \in {"ptr", "len"} \ {mainPc} :
          /\ v' = IF word = "ptr" THEN [v EXCEPT !.ptr = data[i + 1]]
                                  ELSE [v EXCEPT !.len = StrLen(data[i + 1])]
          /\ mainPc' = IF mainPc = "spawn" THEN word ELSE "go"
    /\ UNCHANGED <<program, in, sentOn, i, gPc, took, val, closed, wg, out, result, conns, panicked>>

\* go func() { fmt.Println(v) }()
ClosureGo ==
    /\ Runs("closure") /\ mainPc = "go"
    /\ gPc' = [gPc EXCEPT ![i] = "start"]
    /\ i' = i + 1
    /\ mainPc' = "spawn"
    /\ UNCHANGED <<program, v, in, sentOn, took, val, closed, wg, out, result, conns, panicked>>

\* go func(in string) { fmt.Println(in) }(v)
FixedGo ==
    /\ Runs("fixed") /\ mainPc = "go"
    /\ in' = [in EXCEPT ![i] = v]
    /\ gPc' = [gPc EXCEPT ![i] = "start"]
    /\ i' = i + 1
    /\ mainPc' = "spawn"
    /\ UNCHANGED <<program, v, sentOn, took, val, closed, wg, out, result, conns, panicked>>

\* the range loop ends, main goes to time.Sleep
LoopDone ==
    /\ program \in {"closure", "fixed"} /\ ~panicked
    /\ mainPc = "spawn" /\ i >= Len(data)
    /\ mainPc' = "sleep"
    /\ UNCHANGED <<program, v, in, sentOn, i, gPc, took, val, closed, wg, out, result, conns, panicked>>

\* fmt.Println(v): the goroutine reads the shared v when it runs, unsynchronised
ClosurePrint(g) ==
    /\ Runs("closure") /\ gPc[g] = "start"
    /\ Println(Text(v), << >>)
    /\ gPc' = [gPc EXCEPT ![g] = "returned"]
    /\ UNCHANGED <<program, v, in, sentOn, mainPc, i, took, val, closed, wg, result, conns, panicked>>

\* fmt.Println(in): the goroutine prints its own argument
FixedPrint(g) ==
    /\ Runs("fixed") /\ gPc[g] = "start"
    /\ Println(Text(in[g]), << >>)
    /\ gPc' = [gPc EXCEPT ![g] = "returned"]
    /\ UNCHANGED <<program, v, in, sentOn, mainPc, i, took, val, closed, wg, result, conns, panicked>>

----------------------------------------------------------------------------
(* Query, lines 436-447 *)

\* for _, conn := range conns { go func(c Conn) {...}(conn) }
QuerySpawn ==
    /\ Runs("query") /\ mainPc = "spawn" /\ i < Len(conns)
    /\ gPc' = [gPc EXCEPT ![i] = "start"]
    /\ i' = i + 1
    /\ UNCHANGED <<program, v, in, sentOn, mainPc, took, val, closed, wg, out, result, conns, panicked>>

\* the range loop ends, Query blocks in  return <-ch
QueryBlock ==
    /\ Runs("query") /\ mainPc = "spawn" /\ i >= Len(conns)
    /\ mainPc' = "recv"
    /\ UNCHANGED <<program, v, in, sentOn, i, gPc, took, val, closed, wg, out, result, conns, panicked>>

\* c.DoQuery(query): the operand of the send, evaluated on entering the select
AttemptDoQuery(g) ==
    /\ Runs("query") /\ gPc[g] = "start"
    /\ \E r \in Results : val' = [val EXCEPT ![g] = r]
    /\ gPc' = [gPc EXCEPT ![g] = "select"]
    /\ UNCHANGED <<program, v, in, sentOn, mainPc, i, took, closed, wg, out, result, conns, panicked>>

\* AttemptSend with a Query that goes on receiving
AttemptSendKeepsReceiving(g) ==
    /\ Runs("query") /\ gPc[g] = "select"
    /\ mainPc = "recv"
    /\ result' = val[g]
    /\ took' = [took EXCEPT ![g] = "send"]
    /\ gPc' = [gPc EXCEPT ![g] = "returned"]
    /\ sentOn' = sentOn \cup {"ch"}
    /\ UNCHANGED <<program, v, in, mainPc, i, val, closed, wg, out, conns, panicked>>

\* case ch <- c.DoQuery(query): possible only while Query is blocked in <-ch
AttemptSend(g) ==
    /\ Runs("query") /\ gPc[g] = "select"
    /\ mainPc = "recv"
    /\ result' = val[g]
    /\ mainPc' = "returned"
    /\ took' = [took EXCEPT ![g] = "send"]
    /\ gPc' = [gPc EXCEPT ![g] = "returned"]
    /\ sentOn' = sentOn \cup {"ch"}
    /\ UNCHANGED <<program, v, in, i, val, closed, wg, out, conns, panicked>>

\* QueryRecv raced against a timer
QueryRecvTimer ==
    \/ \E g \in G : AttemptSend(g)
    \/ /\ Runs("query") /\ mainPc = "recv"
       /\ mainPc' = "timeout"
       /\ UNCHANGED <<program, v, in, sentOn, i, gPc, took, val, closed, wg, out, result, conns, panicked>>

\* return <-ch
QueryRecv == \E g \in G : AttemptSend(g)

\* AttemptDefault of a select that has no default case
AttemptDefaultMissing(g) ==
    /\ Runs("query") /\ gPc[g] = "select"
    /\ FALSE
    /\ UNCHANGED vars

\* default: taken when no receiver is blocked on ch
AttemptDefault(g) ==
    /\ Runs("query") /\ gPc[g] = "select"
    /\ mainPc # "recv"
    /\ took' = [took EXCEPT ![g] = "default"]
    /\ gPc' = [gPc EXCEPT ![g] = "returned"]
    /\ UNCHANGED <<program, v, in, sentOn, mainPc, i, val, closed, wg, out, result, conns, panicked>>

----------------------------------------------------------------------------
\* no program has more goroutines than this, besides main
MaxGoroutines == workerCount + NumAttempts + MaxConns

\* the steps of the main goroutine (or of Query's caller)
Main ==
    \/ PoolSpawn \/ PoolSpawned \/ PoolSend \/ PoolSent \/ PoolClose
    \/ PoolWait \/ PoolPrint
    \/ RaceSpawn \/ RaceSpawned \/ RaceRecv \/ RacePrint \/ RaceClose \/ RaceSleep
    \/ QuerySpawn \/ QueryBlock \/ QueryRecv
    \/ NaiveSpawn \/ NaiveSpawned \/ NaiveRecv \/ NaivePrint \/ NaiveClose
    \/ MainSleep
    \/ LoopAssign \/ ClosureGo \/ FixedGo \/ LoopDone

\* the steps of goroutine g
Go(g) ==
    \/ WorkerStart(g) \/ WorkerWork(g) \/ WorkerDone(g) \/ WorkerReturn(g)
    \/ AttemptStart(g) \/ RaceDone(g) \/ AttemptPrint(g)
    \/ AttemptDoQuery(g) \/ AttemptDefault(g)
    \/ NaiveStart(g) \/ ClosurePrint(g) \/ FixedPrint(g)

\* the steps of goroutine g that need nothing but the processor: all but
\* the call to the database, which answers when it answers, if ever
Scheduled(g) == Go(g) /\ ~(program = "query" /\ gPc[g] = "start")

Next ==
    \/ PoolSpawn \/ PoolSpawned \/ PoolSend \/ PoolSent \/ PoolClose
    \/ PoolWait \/ PoolPrint
    \/ RaceSpawn \/ RaceSpawned \/ RaceRecv \/ RacePrint \/ RaceClose \/ RaceSleep
    \/ QuerySpawn \/ QueryBlock \/ QueryRecv
    \/ NaiveSpawn \/ NaiveSpawned \/ NaiveRecv \/ NaivePrint \/ NaiveClose
    \/ MainSleep
    \/ LoopAssign \/ ClosureGo \/ FixedGo \/ LoopDone
    \/ \E g \in G : WorkerStart(g)
    \/ \E g \in G : WorkerWork(g)
    \/ \E g \in G : WorkerDone(g)
    \/ \E g \in G : WorkerReturn(g)
    \/ \E g \in G : AttemptStart(g)
    \/ \E g \in G : RaceDone(g)
    \/ \E g \in G : AttemptPrint(g)
    \/ \E g \in G : AttemptDoQuery(g)
    \/ \E g \in G : AttemptDefault(g)
    \/ \E g \in G : NaiveStart(g)
    \/ \E g \in G : ClosurePrint(g)
    \/ \E g \in G : FixedPrint(g)

Spec == Init /\ [][Next]_vars

\* every goroutine that can take a step eventually takes one; nothing makes
\* a DoQuery call return
FairSpec ==
    Spec /\ WF_vars(Main)
         /\ \A g \in 0 .. MaxGoroutines - 1 : WF_vars(g \in G /\ Scheduled(g))
----------------------------------------------------------------------------
(* Properties *)

\* the workers that have item m in hand, and the output lines that report it
Holding(m) == {w \in G : gPc[w] = "work" /\ val[w] = m}
Reported(m) == {k \in DOMAIN out : out[k].kind = "m =>" /\ out[k].args[2] = m}

\* C1: in the worker pool every item main has sent is held or reported by
\* exactly one worker, exactly once; an item not yet sent by nobody; and when
\* main is done each of the workerCount items has been reported exactly once.
PoolEachItemOnce ==
    program = "pool" =>
        \A m \in 0 .. workerCount - 1 :
            LET sent == mainPc \notin {"spawn", "send"} \/ (mainPc = "send" /\ m < i)
            IN  /\ Cardinality(Holding(m)) + Cardinality(Reported(m))
                     = (IF sent THEN 1 ELSE 0)
                /\ mainPc = "done" => Cardinality(Reported(m)) = 1

\* C1 witness: main is done and the two items were reported by two workers
PoolEachItemOnceWitness ==
    /\ program = "pool" /\ mainPc = "done"
    /\ \E j, k \in DOMAIN out :
          /\ out[j].kind = "m =>" /\ out[k].kind = "m =>"
          /\ out[j].args[2] # out[k].args[2]
          /\ out[j].args[1] # out[k].args[1]

\* C2 (as claimed): once every attempt of a non-empty Query has finished its
\* DoQuery and its select, Query has returned a Result.
QueryReturnsFirstResponse ==
    (program = "query" /\ G # {} /\ \A g \in G : gPc[g] = "returned")
        => mainPc = "returned"

\* the attempts whose send on ch completed
Won == {g \in G : took[g] = "send"}

\* C3: in the done-channel race at most one attempt completes its send, none
\* before main receives, and from the receive on exactly one has, and the
\* value main holds is that attempt's (idx+1)*2.
RaceExactlyOneWon ==
    program = "race" =>
        /\ Cardinality(Won) <= 1
        /\ mainPc \in {"spawn", "recv"} => Won = {}
        /\ mainPc \notin {"spawn", "recv"} =>
              \E g \in Won : result = (g + 1) * 2
        /\ \A k \in DOMAIN out :
              out[k].kind = "result:" => out[k].args = <<result>>

\* C3 witness: main has finished, one attempt won and the others did not
RaceExactlyOneWonWitness ==
    /\ program = "race" /\ mainPc = "done"
    /\ \E g \in G : /\ took[g] = "send" /\ result = (g + 1) * 2
                    /\ \A h \in G \ {g} : took[h] # "send"

\* C4: in the done-channel race, once done is closed every attempt
\* eventually returns, the losers through their done branch.
RaceLosersExit ==
    (program = "race" /\ "done" \in closed)
        ~> (\A g \in G : gPc[g] = "returned" /\ (g \notin Won => took[g] = "done"))

\* C4 witness: main sleeps after close(done) and both losers have returned
\* through the done branch
RaceLosersExitWitness ==
    /\ program = "race" /\ mainPc = "sleep" /\ "done" \in closed
    /\ Cardinality({g \in G : gPc[g] = "returned" /\ took[g] = "done"}) = NumAttempts - 1

\* C5: in the worker pool and in the done-channel race nothing panics, the
\* only channel ever closed is done, and no send is ever made on done or on
\* any closed channel.
NoSendOnClosedChannel ==
    program \in {"pool", "race"} =>
        /\ ~panicked
        /\ closed \subseteq {"done"}
        /\ "done" \notin sentOn
        /\ sentOn \cap closed = {}

\* C5 witness: done is closed, sends were made, and a goroutine has left
\* through its done branch
NoSendOnClosedChannelWitness ==
    /\ program \in {"pool", "race"}
    /\ closed = {"done"} /\ sentOn # {}
    /\ \E g \in G : took[g] = "done" /\ gPc[g] \in {"stopped", "returned"}

\* C6: main is past wg.Wait() only when every worker has returned from doit.
WaitAfterAllStopped ==
    (program = "pool" /\ mainPc \in {"print", "done"})
        => \A w \in G : gPc[w] = "stopped"

\* C6 witness: Wait has just returned
WaitAfterAllStoppedWitness ==
    program = "pool" /\ mainPc = "print" /\ wg = 0 /\ Len(out) = 3 * workerCount

\* C7: under fair scheduling the worker pool terminates: main reaches the
\* end after all its sends, and every worker has stopped.
PoolTerminates ==
    (program = "pool") => <>(mainPc = "done" /\ i = workerCount
                             /\ \A w \in 0 .. workerCount - 1 : gPc[w] = "stopped")

\* C7 witness: the final state of the pool
PoolTerminatesWitness ==
    /\ program = "pool" /\ mainPc = "done" /\ wg = 0
    /\ \A w \in G : gPc[w] = "stopped" /\ took[w] = "done"
    /\ out[Len(out)].kind = "all done!"

\* C8 (as claimed): Query called with an empty conns slice never waits on
\* the result channel.
QueryEmptyDoesNotBlock ==
    (program = "query" /\ Len(conns) = 0) => mainPc # "recv"

AttemptNeverBlocks ==
    program = "query" =>
        \A g \in G : gPc[g] = "select" =>
            ENABLED (AttemptSend(g) \/ AttemptDefault(g))

\* C10 witness: Query has returned with one attempt's value and another
\* attempt, finding no receiver, has ended through default
AttemptNeverBlocksWitness ==
    /\ program = "query" /\ mainPc = "returned"
    /\ \E g, h \in G : took[g] = "send" /\ took[h] = "default" /\ gPc[h] = "returned"

\* the lines by which worker w reports that it saw done closed
SawDone(w, o) == {k \in DOMAIN o : o[k].kind = "is done" /\ o[k].args = <<w>>}

\* C11: in the worker pool done is closed by main's close(done) and by
\* nothing else, once; once closed it stays closed; nothing panics; and a
\* worker takes its done branch at most once, exactly once when it has left
\* its loop.
DoneClosedOnceSeenOnce ==
    [][program = "pool" =>
         /\ closed' # closed => (closed = {} /\ closed' = {"done"} /\ mainPc = "close")
         /\ ("done" \in closed') <=> (mainPc' \in {"wait", "print", "done"})
         /\ ~panicked'
         /\ \A w \in G :
               /\ Cardinality(SawDone(w, out')) <= 1
               /\ (gPc'[w] \in {"return", "stopped"}) <=> (SawDone(w, out') # {})
               /\ (gPc'[w] \in {"return", "stopped"}) <=> (took'[w] = "done")]_vars

\* C11 witness: done is closed and all workers have stopped, each having
\* reported done once
DoneClosedOnceSeenOnceWitness ==
    /\ program = "pool" /\ closed = {"done"} /\ mainPc = "wait"
    /\ \A w \in G : gPc[w] = "stopped" /\ Cardinality(SawDone(w, out)) = 1

NaiveSendOnClosedReachable ==
    program = "naive" =>
        /\ ("ch" \in closed /\ ~panicked) =>
              /\ Cardinality({g \in G : gPc[g] \in {"start", "send"}}) = NumSenders - 1
              /\ Cardinality(Won) = 1
              /\ \A g \in G : gPc[g] = "send" => ENABLED NaiveSend(g)
        /\ panicked => (closed = {"ch"} /\ mainPc = "sleep"
                        /\ \E g \in G : gPc[g] = "send")

\* C13 witness: the program has panicked in a send on the closed ch, after
\* main printed the first value
NaiveSendOnClosedReachableWitness ==
    /\ program = "naive" /\ panicked /\ "ch" \in closed
    /\ Len(out) = 1 /\ out[1].args = <<result>>
    /\ \E g \in G : gPc[g] = "send"

\* C14: in the worker pool, once done is closed main sends nothing more and
\* no worker receives an item; a worker that holds an item then can only
\* print it and go back to its select, from where it can only leave through
\* done; and a stopped worker stays stopped and prints nothing.
NoReceiveAfterDone ==
    [][program = "pool" =>
         \A w \in G :
            /\ "done" \in closed =>
                  /\ i' = i /\ val' = val
                  /\ gPc[w] # "work" => gPc'[w] # "work"
                  /\ (gPc[w] = "work" /\ gPc'[w] # "work") =>
                        /\ gPc'[w] = "select"
                        /\ out' = Append(out, [kind |-> "m =>", args |-> <<w, val[w]>>])
                  /\ (gPc[w] = "select" /\ gPc'[w] # "select") => gPc'[w] = "return"
            /\ gPc[w] = "stopped" =>
                  /\ gPc'[w] = "stopped"
                  /\ out' # out =>
                        LET args == out'[Len(out')].args
                        IN  ~(Len(args) >= 1 /\ args[1] = w)]_vars

\* C14 witness: done is closed while one worker still holds an item and
\* another has already stopped
NoReceiveAfterDoneWitness ==
    /\ program = "pool" /\ "done" \in closed
    /\ \E w, x \in G : gPc[w] = "work" /\ gPc[x] = "stopped"

\* C15: in Query at most one attempt's send completes; Query has returned
\* exactly when one has, with that attempt's DoQuery result; until then it
\* holds no result; and every other attempt that is over ended in default,
\* its result delivered to nobody.
QueryDeliversOneResult ==
    program = "query" =>
        /\ Cardinality(Won) <= 1
        /\ (mainPc = "returned") <=> (Won # {})
        /\ ("ch" \in sentOn) <=> (Won # {})
        /\ \A g \in Won : result = val[g] /\ gPc[g] = "returned"
        /\ Won = {} => result = 0
        /\ \A g \in G \ Won : gPc[g] = "returned" => took[g] = "default"
        /\ \A g \in G \ Won : took[g] \in {"none", "default"}

\* C15 witness: Query returned one attempt's result and the other attempts
\* ended in default, one of them with a different result
QueryDeliversOneResultWitness ==
    /\ program = "query" /\ mainPc = "returned" /\ Len(conns) = MaxConns
    /\ \A g \in G : gPc[g] = "returned"
    /\ \E g \in G : took[g] = "default" /\ val[g] # result

\* C16: in the done-channel race, while main waits in <-ch every attempt
\* that waits in its select can be the one whose send completes, whatever
\* its index; one value at most is delivered and it is one of the (idx+1)*2.
RaceAnyAttemptCanWin ==
    program = "race" =>
        /\ mainPc = "recv" => \A g \in G : gPc[g] = "select" => ENABLED RaceSend(g)
        /\ Cardinality({k \in DOMAIN out : out[k].kind = "result:"}) <= 1
        /\ Cardinality({k \in DOMAIN out : out[k].kind = "sent result"}) <= 1
        /\ result \in {0} \cup {(g + 1) * 2 : g \in G}

\* C16 witness: main waits in <-ch and all three attempts wait in their
\* select, each able to win
RaceAnyAttemptCanWinWitness ==
    /\ program = "race" /\ mainPc = "recv"
    /\ \A g \in 0 .. NumAttempts - 1 : gPc[g] = "select" /\ ENABLED RaceSend(g)

\* C17: in the worker pool, an item main offers can be taken by every worker
\* that waits in its select, also while an earlier item is still in another
\* worker's hands, not yet printed.
PoolAnyWorkerTakesItem ==
    (program = "pool" /\ mainPc = "send" /\ i < workerCount) =>
        \A w \in G : gPc[w] = "select" => ENABLED WorkerRecv(w)

\* C17 witness: the item sent second was printed before the item sent first
PoolAnyWorkerTakesItemWitness ==
    /\ program = "pool"
    /\ \E j, k \in DOMAIN out :
          /\ j < k
          /\ out[j].kind = "m =>" /\ out[k].kind = "m =>"
          /\ out[j].args[2] > out[k].args[2]

\* the attempts that left through their done branch
Exited == {g \in G : took[g] = "done"}

\* C18: in the done-channel race done is closed only after main has received
\* and printed a result; an attempt leaves through done only after that; and
\* when main ends, all attempts but the winner have left through done.
RaceDoneAfterWin ==
    program = "race" =>
        /\ "done" \in closed => (Won # {} /\ mainPc \in {"sleep", "done"})
        /\ Exited # {} => ("done" \in closed /\ Won # {})
        /\ \A k \in DOMAIN out :
              out[k].kind = "exiting" => \E j \in 1 .. k - 1 : out[j].kind = "result:"
        /\ Cardinality(Exited) <= NumAttempts - 1
        /\ mainPc = "done" =>
              Cardinality({g \in Exited : gPc[g] = "returned"}) = NumAttempts - 1

\* C18 witness: main has ended and two exiting lines were printed
RaceDoneAfterWinWitness ==
    /\ program = "race" /\ mainPc = "done"
    /\ Cardinality(Exited) = NumAttempts - 1
    /\ Cardinality({k \in DOMAIN out : out[k].kind = "exiting"}) = NumAttempts - 1

\* the lines of the output that show the text s
Printed(s) == {k \in DOMAIN out : out[k].kind = s}

\* C19 (as claimed): every line the goroutines of the program that captures
\* v print is three, three lines when it has ended; and when the program that
\* passes v as argument has ended, one, two and three were each printed once.
ClosurePrintsThreeThrice ==
    /\ program = "closure" =>
          /\ \A k \in DOMAIN out : out[k].kind = "three"
          /\ mainPc = "done" => Len(out) = Len(data)
    /\ (program = "fixed" /\ mainPc = "done") =>
          /\ Len(out) = Len(data)
          /\ \A k \in DOMAIN data : Cardinality(Printed(data[k])) = 1
====
